---- MODULE Spec2Model ----
(***************************************************************************)
(* GithubRepoDownloader (main.py): config_read, validate_github_token, the  *)
(* __main__ entry point, download_all_repos and download_repo_zip.          *)
(*                                                                          *)
(* Strings are sequences of one-character strings; a filesystem path is a  *)
(* sequence of components whose first component is "/" when absolute.      *)
(* Wall-clock time is counted in ticks of 1/TicksPerMs millisecond.        *)
(*                                                                          *)
(* The process is sequential.  Three specifications run it: Spec under     *)
(* every outcome of every request, SpecClock under every passage of time,  *)
(* SpecStartup under every configuration.                                  *)
(***************************************************************************)
EXTENDS Integers, Sequences, FiniteSets

VARIABLES
    pc,            \* position of the process
    cfgFile,       \* config.toml: [exists, doc]
    cfgInitial,    \* config.toml as it was when the process started
    cfgWrites,     \* number of times the process wrote config.toml
    config,        \* the dict config_read loaded
    exitCode,      \* -1 while running, then the process's exit code
    log,           \* set of <<level, message, subject>> emitted by logger
    dirCreated,    \* os.makedirs(download_path) has run
    requests,      \* sequence of network requests issued: <<kind, subject>>
    listing,       \* outcome of the repository-listing request
    repos,         \* names of response.json()['items'], "" for a falsy name
    idx,           \* 1-based position of the for loop in repos
    now,           \* wall clock, in ticks
    current_time,  \* download_all_repos.current_time (ms)
    issued,        \* current_time at each call of download_repo_zip, in order
    attempts,      \* <<repo_name, outcome>> of each call of download_repo_zip
    result,        \* how the last call of download_repo_zip ended
    files,         \* download directory: repo_name -> state of <repo_name>.zip
    filesInitial   \* the download directory as it was when the process started

vars == <<pc, cfgFile, cfgInitial, cfgWrites, config, exitCode, log, dirCreated,
          requests, listing, repos, idx, now, current_time, issued, attempts,
          result, files, filesInitial>>

(***************************************************************************)
(* Bounds of the model.                                                    *)
(***************************************************************************)
MaxUserLen == 3      \* usernames up to this length
MaxLenDev == 1       \* token bodies deviate from the required length by at most this
MaxRepos == 2        \* repository lists up to this length
MaxStart == 1        \* the clock starts at 0..MaxStart ticks
MaxDuration == 1     \* a download lasts 0..MaxDuration ticks, or longer than min_delay
MaxOvershoot == 1    \* time.sleep oversleeps by 0..MaxOvershoot ticks
TicksPerMs == 2      \* resolution of the wall clock below one millisecond

(***************************************************************************)
(* Character classes.                                                      *)
(***************************************************************************)
Lower == {"a","b","c","d","e","f","g","h","i","j","k","l","m",
          "n","o","p","q","r","s","t","u","v","w","x","y","z"}
Upper == {"A","B","C","D","E","F","G","H","I","J","K","L","M",
          "N","O","P","Q","R","S","T","U","V","W","X","Y","Z"}
Digit == {"0","1","2","3","4","5","6","7","8","9"}
AlNum == Lower \cup Upper \cup Digit
NL == "\n"

(***************************************************************************)
(* Regular-expression matching as re.match does it.  A position is the     *)
(* number of characters consumed; each operator maps the set of positions  *)
(* before a sub-pattern to the set of positions after it.                  *)
(***************************************************************************)
Lit(s, P, lit) ==
    {p + Len(lit) : p \in {q \in P : /\ q + Len(lit) <= Len(s)
                                     /\ SubSeq(s, q + 1, q + Len(lit)) = lit}}

Rep(s, P, C, n) ==
    {p + n : p \in {q \in P : /\ q + n <= Len(s)
                              /\ \A i \in (q + 1)..(q + n) : s[i] \in C}}

Plus(s, P, C) ==
    {q \in 1..Len(s) : \E p \in P : p < q /\ \A i \in (p + 1)..q : s[i] \in C}

\* -[a-zA-Z0-9]+
HyphenSegment(s, P) == Plus(s, Lit(s, P, <<"-">>), AlNum)

\* (?:-[a-zA-Z0-9]+)*
RECURSIVE HyphenSegments(_, _)
HyphenSegments(s, P) ==
    LET Q == P \cup HyphenSegment(s, P)
    IN  IF Q = P THEN P ELSE HyphenSegments(s, Q)

\* $ without re.MULTILINE: the end of the string, or just before a newline
\* that is the last character of the string
Dollar(s, P) ==
    {p \in P : \/ p = Len(s)
               \/ (p = Len(s) - 1 /\ s[Len(s)] = NL)}

\* main.py:188  r'^[a-zA-Z0-9]+(?:-[a-zA-Z0-9]+)*$'
USERNAME_REGEX(s) == Dollar(s, HyphenSegments(s, Plus(s, {0}, AlNum))) # {}

ClassicBodyLen == 36
PatIdLen == 22
PatSecretLen == 59
GhPrefix == <<"g","h">>
PatPrefix == <<"g","i","t","h","u","b","_","p","a","t","_">>

\* gh[ps]_[a-zA-Z0-9]{36}
ClassicToken(s) ==
    Rep(s, Lit(s, Rep(s, Lit(s, {0}, GhPrefix), {"p","s"}, 1), <<"_">>),
        AlNum, ClassicBodyLen)

\* github_pat_[a-zA-Z0-9]{22}_[a-zA-Z0-9]{59}
FineGrainedToken(s) ==
    Rep(s, Lit(s, Rep(s, Lit(s, {0}, PatPrefix), AlNum, PatIdLen), <<"_">>),
        AlNum, PatSecretLen)

\* main.py:41
GITHUB_TOKEN_REGEX(s) == Dollar(s, ClassicToken(s) \cup FineGrainedToken(s)) # {}

\* main.py:206-218
validate_github_token(github_token) == GITHUB_TOKEN_REGEX(github_token)

\* main.py:188  not config["github_username"] or not re.match(...)
UsernameAccepted(u) == u # <<>> /\ USERNAME_REGEX(u)

\* pathlib.PurePosixPath.is_absolute
is_absolute(p) == Len(p) > 0 /\ p[1] = "/"

(***************************************************************************)
(* config.toml.  toml.dump writes one "key = value" line per key of the    *)
(* dict, toml.load builds the dict back from the lines.                    *)
(***************************************************************************)
ConfigKeys == <<"github_username", "github_token", "download_path">>

TomlDump(c) == [i \in 1..Len(ConfigKeys) |-> <<ConfigKeys[i], c[ConfigKeys[i]]>>]

TomlLoad(doc) ==
    [k \in {doc[i][1] : i \in DOMAIN doc} |->
        doc[CHOOSE i \in DOMAIN doc : doc[i][1] = k][2]]

\* str(Path.home() / 'Desktop' / 'GithubRepoDownloader_repos')
HomeDir == <<"/", "home", "user">>
default_config ==
    [github_username |-> <<>>,
     github_token    |-> <<>>,
     download_path   |-> HomeDir \o <<"Desktop", "GithubRepoDownloader_repos">>]

(***************************************************************************)
(* Inputs: the configurations a user may have written to config.toml.      *)
(***************************************************************************)
Strings(A, n) == UNION {[1..k -> A] : k \in 0..n}

UserAlphabet == {"a", "-", NL, "_"}
Usernames == Strings(UserAlphabet, MaxUserLen)

BodyChars == <<"a", "Z", "7">>
Body(n, pos, ch) ==
    [i \in 1..n |-> IF i = pos THEN ch ELSE BodyChars[(i % Len(BodyChars)) + 1]]
Bodies(n) ==
    {Body(n, 0, "a"), Body(n, 1, "-"), Body(n, n, "_"), Body(n, n, NL)}
Around(n) == {m \in (n - MaxLenDev)..(n + MaxLenDev) : m >= 1}
Suffixes == {<<>>, <<NL>>, <<"x">>, <<NL, NL>>}

ClassicTokens ==
    {GhPrefix \o kind \o b \o suf :
        kind \in {<<"p","_">>, <<"s","_">>, <<"o","_">>, <<"p">>},
        b \in UNION {Bodies(n) : n \in Around(ClassicBodyLen)},
        suf \in Suffixes}

FineGrainedTokens ==
    {pre \o Body(n1, 0, "a") \o sep \o b \o suf :
        pre \in {PatPrefix, <<"g","i","t","h","u","b","_","p","a","t">>},
        n1 \in Around(PatIdLen),
        sep \in {<<"_">>},
        b \in UNION {Bodies(n2) : n2 \in Around(PatSecretLen)},
        suf \in Suffixes}

Tokens == {<<>>} \cup ClassicTokens \cup FineGrainedTokens

Paths == {<<"/", "backup">>, <<"backup">>, <<>>, default_config.download_path}

\* one well-formed and one ill-formed value of each field, against which
\* the other fields range over all their values
GoodUser == <<"a", "-", "a">>
GoodToken == GhPrefix \o <<"p", "_">> \o Body(ClassicBodyLen, 0, "a")
GoodPath == <<"/", "backup">>
ProbeUsers == {GoodUser, <<"-">>}
ProbeTokens == {GoodToken, <<>>}
ProbePaths == {GoodPath, <<"backup">>}

Configs ==
    [github_username : Usernames, github_token : ProbeTokens, download_path : ProbePaths]
    \cup
    [github_username : ProbeUsers, github_token : Tokens, download_path : ProbePaths]
    \cup
    [github_username : ProbeUsers, github_token : ProbeTokens, download_path : Paths]

RepoNames == {"r1", "r2"}
RepoLists == UNION {[1..k -> RepoNames \cup {""}] : k \in 0..MaxRepos}

(***************************************************************************)
(* The clock.                                                              *)
(***************************************************************************)
\* round(x): to the nearest integer, a tie to the even one
round(t, unit) ==
    LET q == t \div unit
        r == t % unit
    IN  IF 2 * r < unit THEN q
        ELSE IF 2 * r > unit THEN q + 1
        ELSE IF q % 2 = 0 THEN q ELSE q + 1

\* main.py:96-97  round(time.time() * 1000), at wall-clock tick t
current_milli_time(t) == round(t, TicksPerMs)

min_delay == 500

\* how long a download may last, in ticks: no time at all, or more than the
\* minimum delay
Instant == {0}
Long == {min_delay * TicksPerMs + MaxDuration}
Durations == (0..MaxDuration) \cup Long

(***************************************************************************)
(* Initial state: the process has not started; config.toml is absent or    *)
(* holds some configuration; the download directory holds any earlier      *)
(* archives.                                                               *)
(***************************************************************************)
NoFile == [exists |-> FALSE, doc |-> <<>>]
\* `config` before config_read has returned
NotLoaded == [github_username |-> <<>>, github_token |-> <<>>, download_path |-> <<>>]

Start(Cs, Fs) ==
    /\ pc = "config_read"
    /\ cfgFile \in {NoFile} \cup {[exists |-> TRUE, doc |-> TomlDump(c)] : c \in Cs}
    /\ cfgInitial = cfgFile
    /\ cfgWrites = 0
    /\ config = NotLoaded
    /\ exitCode = -1
    /\ log = {}
    /\ dirCreated = FALSE
    /\ requests = <<>>
    /\ listing = "none"
    /\ repos = <<>>
    /\ idx = 0
    /\ now = 0
    /\ current_time = 0
    /\ issued = <<>>
    /\ attempts = <<>>
    /\ result = "none"
    /\ files \in Fs
    /\ filesInitial = files

(***************************************************************************)
(* config_read, main.py:166-203                                            *)
(***************************************************************************)
\* variant: the username is only checked for emptiness
ValidateNoPattern(c) ==
    IF c.github_username = <<>> THEN "username_invalid"
    ELSE IF ~validate_github_token(c.github_token) THEN "token_invalid"
    ELSE IF ~is_absolute(c.download_path) THEN "path_invalid"
    ELSE "ok"

\* the first check of lines 187-201 that fails, "ok" when none does
Validate(c) ==
    IF ~UsernameAccepted(c.github_username) THEN "username_invalid"
    ELSE IF ~validate_github_token(c.github_token) THEN "token_invalid"
    ELSE IF ~is_absolute(c.download_path) THEN "path_invalid"
    ELSE "ok"

\* variant: the defaults are written whether or not config.toml exists
AlwaysCreate(file) == TRUE

\* line 179  not CONFIG_FILE_PATH.is_file()
MustCreate(file) == ~file.exists

config_read ==
    /\ pc = "config_read"
    /\ LET create == MustCreate(cfgFile)
           file == IF create
                   THEN [exists |-> TRUE, doc |-> TomlDump(default_config)]
                   ELSE cfgFile
           c == TomlLoad(file.doc)
           made == IF create THEN {<<"INFO", "default_config_created", "">>} ELSE {}
           verdict == Validate(c)
       IN  /\ cfgFile' = file
           /\ cfgWrites' = cfgWrites + (IF create THEN 1 ELSE 0)
           /\ config' = c
           /\ IF verdict # "ok"
              THEN /\ log' = log \cup made \cup {<<"ERROR", verdict, "">>}
                   /\ exitCode' = 1
                   /\ pc' = "exited"
              ELSE /\ log' = log \cup made
                   /\ exitCode' = exitCode
                   /\ pc' = "main"
    /\ UNCHANGED <<filesInitial, cfgInitial, dirCreated, requests, listing, repos, idx, now,
                   current_time, issued, attempts, result, files>>

(***************************************************************************)
(* __main__ up to the call of download_all_repos, main.py:222-246          *)
(***************************************************************************)
MainErrors(c) ==
    (IF c.github_username = <<>> THEN {<<"ERROR", "username_empty", "">>} ELSE {})
    \cup
    (IF ~is_absolute(c.download_path) THEN {<<"ERROR", "path_invalid", "">>} ELSE {})
    \cup
    (IF ~validate_github_token(c.github_token)
     THEN {<<"ERROR", "token_invalid", "">>} ELSE {})

main ==
    /\ pc = "main"
    /\ IF MainErrors(config) # {}
       THEN /\ log' = log \cup MainErrors(config)
            /\ exitCode' = 1
            /\ pc' = "exited"
       ELSE /\ log' = log \cup {<<"INFO", "download_started", "">>}
            /\ exitCode' = exitCode
            /\ pc' = "download_all_repos"
    /\ UNCHANGED <<filesInitial, cfgFile, cfgInitial, cfgWrites, config, dirCreated, requests,
                   listing, repos, idx, now, current_time, issued, attempts,
                   result, files>>

(***************************************************************************)
(* download_repo_zip, main.py:44-77.  `outcome` is what the network and    *)
(* the filesystem do to this call; fs is the download directory.           *)
(***************************************************************************)
\* failures of session.get / raise_for_status, lines 56-57
RequestFailures ==
    {"http_error", "connection_error", "timeout", "request_exception",
     "unexpected_error"}
\* failures of open(zip_filename, 'wb') and of shutil.copyfileobj, lines 75-76
WriteFailures == {"open_error", "stream_error"}
Outcomes == {"ok"} \cup RequestFailures \cup WriteFailures

\* variant: no except clause catches a connection error
download_repo_zip_uncaught(repo_name, outcome, fs) ==
    IF outcome \in RequestFailures \ {"connection_error"}
    THEN [ret |-> "None", files |-> fs,
          log |-> {<<"ERROR", outcome, repo_name>>}]
    ELSE IF outcome \in {"open_error", "connection_error"}
    THEN [ret |-> "raised", files |-> fs, log |-> {}]
    ELSE IF outcome = "stream_error"
    THEN [ret |-> "raised", files |-> [fs EXCEPT ![repo_name] = "partial"],
          log |-> {}]
    ELSE [ret |-> "path", files |-> [fs EXCEPT ![repo_name] = "new"],
          log |-> {}]

\* variant: the destination file is opened before the request is made
download_repo_zip_opens_first(repo_name, outcome, fs) ==
    IF outcome = "open_error"
    THEN [ret |-> "raised", files |-> fs, log |-> {}]
    ELSE IF outcome \in RequestFailures
    THEN [ret |-> "None", files |-> [fs EXCEPT ![repo_name] = "partial"],
          log |-> {<<"ERROR", outcome, repo_name>>}]
    ELSE IF outcome = "stream_error"
    THEN [ret |-> "raised", files |-> [fs EXCEPT ![repo_name] = "partial"],
          log |-> {}]
    ELSE [ret |-> "path", files |-> [fs EXCEPT ![repo_name] = "new"],
          log |-> {}]

download_repo_zip(repo_name, outcome, fs) ==
    IF outcome \in RequestFailures
    THEN \* lines 58-72: logged, return None
         [ret |-> "None", files |-> fs,
          log |-> {<<"ERROR", outcome, repo_name>>}]
    ELSE IF outcome = "open_error"
    THEN \* line 75 raises, outside the try
         [ret |-> "raised", files |-> fs, log |-> {}]
    ELSE IF outcome = "stream_error"
    THEN \* line 76 raises after open() created or truncated the file
         [ret |-> "raised", files |-> [fs EXCEPT ![repo_name] = "partial"],
          log |-> {}]
    ELSE \* lines 74-77
         [ret |-> "path", files |-> [fs EXCEPT ![repo_name] = "new"],
          log |-> {}]

(***************************************************************************)
(* download_all_repos, main.py:100-151                                     *)
(***************************************************************************)
ListFailures == {"http_error", "transport_error"}

\* lines 118-136: makedirs, session, the listing request, the token warning,
\* the first reading of the clock
list_repos(Starts, Lists) ==
    /\ pc = "download_all_repos"
    /\ dirCreated' = TRUE
    /\ requests' = Append(requests, <<"list", "">>)
    /\ \E outcome \in {"ok"} \cup ListFailures, elapsed \in Starts :
        /\ listing' = outcome
        /\ now' = now + elapsed
        /\ IF outcome \in ListFailures
           THEN /\ log' = log \cup {<<"ERROR", "list_failed", "">>}
                /\ pc' = "main_end"
                /\ UNCHANGED <<repos, idx, current_time>>
           ELSE /\ repos' \in Lists
                /\ log' = log \cup
                      (IF config.github_token = <<>>
                       THEN {<<"WARNING", "no_token", "">>} ELSE {})
                /\ current_time' = current_milli_time(now')
                /\ idx' = 1
                /\ pc' = "loop"
    /\ UNCHANGED <<filesInitial, cfgFile, cfgInitial, cfgWrites, config, exitCode, issued,
                   attempts, result, files>>

\* lines 138-142: an item without a name is skipped with a warning
skip_repo ==
    /\ pc = "loop"
    /\ idx <= Len(repos)
    /\ repos[idx] = ""
    /\ log' = log \cup {<<"WARNING", "invalid_name", "">>}
    /\ idx' = idx + 1
    /\ UNCHANGED <<pc, filesInitial, cfgFile, cfgInitial, cfgWrites, config, exitCode,
                   dirCreated, requests, listing, repos, now, current_time,
                   issued, attempts, result, files>>

\* time.sleep(seconds): returns no earlier than asked
sleep(t, ms, over) == t + ms * TicksPerMs + over

\* lines 143-148: the throttle
throttle(Overs) ==
    /\ pc = "loop"
    /\ idx <= Len(repos)
    /\ repos[idx] # ""
    /\ \E over \in Overs :
        LET delta_time == current_milli_time(now) - current_time
            wake == IF delta_time < min_delay
                    THEN sleep(now, min_delay - delta_time, over)
                    ELSE now
        IN  /\ now' = wake
            /\ current_time' = current_milli_time(wake)
            /\ log' = log \cup
                  (IF delta_time < min_delay
                   THEN {<<"WARNING", "sleeping", "">>} ELSE {})
    /\ pc' = "download"
    /\ UNCHANGED <<filesInitial, cfgFile, cfgInitial, cfgWrites, config, exitCode, dirCreated,
                   requests, listing, repos, idx, issued, attempts, result,
                   files>>

\* lines 149-151: the call of download_repo_zip; an exception it lets out
\* ends the process with a traceback and exit code 1
download(Outs, Durs) ==
    /\ pc = "download"
    /\ \E outcome \in Outs, d \in Durs :
        LET repo_name == repos[idx]
            r == download_repo_zip(repo_name, outcome, files)
        IN  /\ requests' = Append(requests, <<"download", repo_name>>)
            /\ issued' = Append(issued, current_time)
            /\ attempts' = Append(attempts, <<repo_name, outcome>>)
            /\ result' = r.ret
            /\ files' = r.files
            /\ now' = now + d
            /\ IF r.ret = "raised"
               THEN /\ pc' = "exited"
                    /\ exitCode' = 1
                    /\ UNCHANGED <<log, idx>>
               ELSE /\ log' = log \cup r.log \cup
                          (IF r.ret = "path"
                           THEN {<<"INFO", "downloaded", repo_name>>} ELSE {})
                    /\ idx' = idx + 1
                    /\ pc' = "loop"
                    /\ UNCHANGED exitCode
    /\ UNCHANGED <<filesInitial, cfgFile, cfgInitial, cfgWrites, config, dirCreated, listing,
                   repos, current_time>>

\* the for loop is exhausted: download_all_repos returns
loop_end ==
    /\ pc = "loop"
    /\ idx > Len(repos)
    /\ pc' = "main_end"
    /\ UNCHANGED <<filesInitial, cfgFile, cfgInitial, cfgWrites, config, exitCode, log,
                   dirCreated, requests, listing, repos, idx, now, current_time,
                   issued, attempts, result, files>>

\* main.py:247 and the end of the script
main_end ==
    /\ pc = "main_end"
    /\ log' = log \cup {<<"INFO", "download_ended", "">>}
    /\ exitCode' = 0
    /\ pc' = "exited"
    /\ UNCHANGED <<filesInitial, cfgFile, cfgInitial, cfgWrites, config, dirCreated, requests,
                   listing, repos, idx, now, current_time, issued, attempts,
                   result, files>>

(***************************************************************************)
(* Specifications.  The process is sequential; what varies is its input    *)
(* (config.toml, the download directory) and its environment (the          *)
(* network's and filesystem's answers, the passage of time).               *)
(***************************************************************************)
ProbeConfigs ==
    [github_username : ProbeUsers, github_token : ProbeTokens,
     download_path : ProbePaths]
GoodConfig ==
    [github_username |-> GoodUser, github_token |-> GoodToken,
     download_path |-> GoodPath]
AnyFiles == [RepoNames -> {"absent", "old"}]
NoFiles == {[r \in RepoNames |-> "absent"]}

\* Spec: the batch under every outcome of every request
Init == Start(ProbeConfigs, AnyFiles)

Next ==
    \/ config_read
    \/ main
    \/ list_repos(Instant, RepoLists)
    \/ skip_repo
    \/ throttle(Instant)
    \/ download(Outcomes, Instant \cup Long)
    \/ loop_end
    \/ main_end

Spec == Init /\ [][Next]_vars

\* SpecClock: the batch under every passage of time
InitClock == Start({GoodConfig}, NoFiles) /\ cfgFile.exists

NextClock ==
    \/ config_read
    \/ main
    \/ list_repos(0..MaxStart, RepoLists)
    \/ skip_repo
    \/ throttle(0..MaxOvershoot)
    \/ download({"ok", "http_error"}, Durations)
    \/ loop_end
    \/ main_end

SpecClock == InitClock /\ [][NextClock]_vars

\* SpecStartup: the start of the process under every configuration
InitStartup == Start(Configs, NoFiles)

NextStartup ==
    \/ config_read
    \/ main
    \/ list_repos(Instant, {<<>>, <<"", "r1">>})
    \/ skip_repo
    \/ throttle(Instant)
    \/ download({"ok", "http_error"}, Instant)
    \/ loop_end
    \/ main_end

SpecStartup == InitStartup /\ [][NextStartup]_vars

(***************************************************************************)
(* Properties.                                                             *)
(***************************************************************************)
Logged(level, message) == \E e \in log : e[1] = level /\ e[2] = message
NonEmpty(names) == SelectSeq(names, LAMBDA n : n # "")
Attempted == [i \in DOMAIN attempts |-> attempts[i][1]]
LastOutcome == attempts[Len(attempts)][2]
\* the configuration config_read loads, or has loaded
FileConfig == IF cfgFile.exists THEN TomlLoad(cfgFile.doc) ELSE default_config
\* download_all_repos returned after the loop ran out of repositories
BatchComplete ==
    /\ listing = "ok"
    /\ \/ pc = "main_end"
       \/ pc = "exited" /\ exitCode = 0

\* C1: consecutive calls of download_repo_zip are issued at timestamps at
\* least min_delay (500 ms) apart.
C1_MinimumSpacing ==
    \A i \in 1..(Len(issued) - 1) : issued[i + 1] - issued[i] >= min_delay

\* C2: when every failure so far is a failure of the request itself, the
\* repositories attempted so far are exactly the non-empty names before the
\* loop position, in list order, once each; and the process has left the loop
\* only with every non-empty name of the list attempted.
C2_FailuresDoNotStopTheLoop ==
    (\A i \in DOMAIN attempts : attempts[i][2] \notin WriteFailures)
    =>
    /\ pc \in {"loop", "download"}
         => Attempted = NonEmpty(SubSeq(repos, 1, idx - 1))
    /\ (listing = "ok" /\ pc \in {"main_end", "exited"})
         => Attempted = NonEmpty(repos)

C2_Witness ==
    /\ pc = "exited"
    /\ attempts = << <<"r1", "http_error">>, <<"r2", "ok">> >>
    /\ files["r2"] = "new"

\* C3: download_repo_zip never raises; whenever a repository's download
\* fails, the failure is logged and None is returned.
C3_NeverRaises ==
    /\ result # "raised"
    /\ (attempts # <<>> /\ pc # "download" /\ LastOutcome # "ok")
         => /\ result = "None"
            /\ <<"ERROR", LastOutcome, attempts[Len(attempts)][1]>> \in log

\* C4: when the listing request fails, the process logs an error and ends
\* with a non-zero exit code.
C4_ListingFailureExitsNonZero ==
    (listing \in ListFailures /\ pc = "exited")
    => (Logged("ERROR", "list_failed") /\ exitCode # 0)

\* C5: the download directory is created and network requests are issued
\* only when username, token and download path all passed their checks; when
\* one of them fails its check the process exits with code 1, with no request
\* issued and no directory created.
C5_ValidatedBeforeNetwork ==
    LET c == FileConfig
        valid == /\ UsernameAccepted(c.github_username)
                 /\ validate_github_token(c.github_token)
                 /\ is_absolute(c.download_path)
    IN  /\ (requests # <<>> \/ dirCreated) => valid
        /\ (pc # "config_read" /\ ~valid)
             => /\ pc = "exited"
                /\ exitCode = 1
                /\ requests = <<>>
                /\ ~dirCreated

C5_Witness ==
    /\ cfgInitial.exists
    /\ config.github_username = GoodUser
    /\ config.github_token = GoodToken
    /\ ~is_absolute(config.download_path)
    /\ pc = "exited"
    /\ exitCode = 1
    /\ requests = <<>>
    /\ ~dirCreated

\* C6: with an empty token and a valid username and download path, the
\* process warns that only public repositories are visible and goes on to
\* list the repositories.
C6_NoTokenProceeds ==
    ( /\ pc = "exited"
      /\ config.github_token = <<>>
      /\ UsernameAccepted(config.github_username)
      /\ is_absolute(config.download_path) )
    => (Logged("WARNING", "no_token") /\ requests # <<>>)

\* C7: once the batch is complete, <repo_name>.zip was created or truncated
\* exactly for the repositories whose request succeeded; every other file of
\* the download directory is as it was before the run.
C7_FilesAreTheSuccessfulDownloads ==
    BatchComplete =>
        \A r \in RepoNames :
            IF \E i \in DOMAIN attempts : attempts[i] = <<r, "ok">>
            THEN files[r] = "new"
            ELSE files[r] = filesInitial[r]

C7_Witness ==
    /\ BatchComplete
    /\ attempts = << <<"r1", "ok">>, <<"r2", "http_error">> >>
    /\ filesInitial["r2"] = "old"
    /\ pc = "exited"

\* C8: without a config file, config_read writes the defaults (empty
\* username, empty token, the download path under the home directory),
\* loads them, and the process exits with code 1 on the username check; an
\* existing config file is never written.
C8_DefaultsOnFirstRun ==
    /\ (~cfgInitial.exists /\ pc # "config_read")
         => /\ cfgWrites = 1
            /\ cfgFile = [exists |-> TRUE, doc |-> TomlDump(default_config)]
            /\ config = default_config
            /\ config.github_username = <<>>
            /\ config.github_token = <<>>
            /\ SubSeq(config.download_path, 1, Len(HomeDir)) = HomeDir
            /\ Logged("INFO", "default_config_created")
            /\ Logged("ERROR", "username_invalid")
            /\ pc = "exited"
            /\ exitCode = 1
    /\ cfgInitial.exists => (cfgWrites = 0 /\ cfgFile = cfgInitial)

C8_Witness ==
    /\ ~cfgInitial.exists
    /\ cfgFile.exists
    /\ exitCode = 1

\* the handle grammar: non-empty alphanumeric segments joined by single hyphens
IsHandle(s) ==
    /\ Len(s) >= 1
    /\ \A i \in 1..Len(s) : s[i] \in AlNum \cup {"-"}
    /\ s[1] # "-"
    /\ s[Len(s)] # "-"
    /\ \A i \in 1..(Len(s) - 1) : ~(s[i] = "-" /\ s[i + 1] = "-")

\* C9: the username check of config_read accepts a username exactly when it
\* is a handle; anything else, a trailing newline included, is rejected.
C9_UsernameCheckIsTheHandleGrammar ==
    (cfgInitial.exists /\ pc # "config_read")
    => (~Logged("ERROR", "username_invalid") <=> IsHandle(config.github_username))

\* the two token shapes
IsToken(s) ==
    \/ /\ Len(s) = 4 + ClassicBodyLen
       /\ SubSeq(s, 1, 2) = GhPrefix
       /\ s[3] \in {"p", "s"}
       /\ s[4] = "_"
       /\ \A i \in 5..Len(s) : s[i] \in AlNum
    \/ /\ Len(s) = Len(PatPrefix) + PatIdLen + 1 + PatSecretLen
       /\ SubSeq(s, 1, Len(PatPrefix)) = PatPrefix
       /\ \A i \in (Len(PatPrefix) + 1)..(Len(PatPrefix) + PatIdLen) : s[i] \in AlNum
       /\ s[Len(PatPrefix) + PatIdLen + 1] = "_"
       /\ \A i \in (Len(PatPrefix) + PatIdLen + 2)..Len(s) : s[i] \in AlNum

\* C10: validate_github_token accepts a token exactly when it has one of the
\* two shapes; a token of one of the shapes followed by one more character,
\* such as a newline, is rejected.
C10_TokenCheckIsTheTokenShapes ==
    (cfgInitial.exists /\ pc # "config_read"
        /\ UsernameAccepted(config.github_username))
    => (~Logged("ERROR", "token_invalid") <=> IsToken(config.github_token))

====
